---- MODULE Spec2Model ----
(***************************************************************************)
(* Model of src/plugin.ts: the TocGroupPlugin of typedoc-plugin-toc-group. *)
(* The plugin listens to three events of a documentation build:            *)
(*   Converter.EVENT_BEGIN          -> onBegin                             *)
(*   Converter.EVENT_RESOLVE_BEGIN  -> onBeginResolve                      *)
(*   PageEvent.BEGIN                -> onBeginRendererPage                 *)
(* Strings the code inspects character by character (tag names, tag text,  *)
(* option values, kind names) are sequences of one-character strings.      *)
(* Symbol names are only compared for equality and stay atomic strings.    *)
(***************************************************************************)
EXTENDS Integers, Sequences, FiniteSets, TLC

VARIABLES regexp, sortOrder, options, project, page, phase, error, builds

vars == <<regexp, sortOrder, options, project, page, phase, error, builds>>

(***************************************************************************)
(* Bounds of the model.                                                    *)
(***************************************************************************)
\* largest number of symbol records in one build's reflection collection
MaxRefs == 2
\* the builds started on the plugin instance are counted up to this number
MaxBuilds == 2

(***************************************************************************)
(* String literals of the program and of the inputs.                       *)
(***************************************************************************)
S_group == <<"g", "r", "o", "u", "p">>
S_kind == <<"k", "i", "n", "d">>
S_platform == <<"p", "l", "a", "t", "f", "o", "r", "m">>
S_deprecated == <<"d", "e", "p", "r", "e", "c", "a", "t", "e", "d">>
S_since == <<"s", "i", "n", "c", "e">>
S_groups == <<"g", "r", "o", "u", "p", "s">>
S_Class == <<"C", "l", "a", "s", "s">>
S_Interface == <<"I", "n", "t", "e", "r", "f", "a", "c", "e">>
S_Function == <<"F", "u", "n", "c", "t", "i", "o", "n">>
S_Constructor == <<"C", "o", "n", "s", "t", "r", "u", "c", "t", "o", "r">>
S_Alpha == <<"A", "l", "p", "h", "a">>
S_Beta == <<"B", "e", "t", "a">>
S_Gamma == <<"G", "a", "m", "m", "a">>
S_web == <<"w", "e", "b">>
S_constructor == <<"c", "o", "n", "s", "t", "r", "u", "c", "t", "o", "r">>
S_empty == << >>
At == <<"@">>

\* const DEFAULT_UNGROUPED_NAME = 'Others'
DEFAULT_UNGROUPED_NAME == <<"O", "t", "h", "e", "r", "s">>

\* private defaultTags = ['group', 'kind', 'platform']
defaultTags == <<S_group, S_kind, S_platform>>

(***************************************************************************)
(* JavaScript helpers the handlers rely on.                                *)
(***************************************************************************)
Range(s) == {s[i] : i \in DOMAIN s}

\* Array.prototype.indexOf(x) > -1
Includes(list, x) == \E i \in DOMAIN list : list[i] = x

\* String.prototype.toLowerCase, on the ASCII letters
UpperChars == <<"A", "B", "C", "D", "E", "F", "G", "H", "I", "J", "K", "L", "M",
                "N", "O", "P", "Q", "R", "S", "T", "U", "V", "W", "X", "Y", "Z">>
LowerChars == <<"a", "b", "c", "d", "e", "f", "g", "h", "i", "j", "k", "l", "m",
                "n", "o", "p", "q", "r", "s", "t", "u", "v", "w", "x", "y", "z">>
LowerChar(c) ==
    IF \E i \in DOMAIN UpperChars : UpperChars[i] = c
    THEN LowerChars[CHOOSE i \in DOMAIN UpperChars : UpperChars[i] = c]
    ELSE c
toLowerCase(s) == [i \in DOMAIN s |-> LowerChar(s[i])]

\* the decimal digits of a number, as a template literal `${n}` prints it
Digits == <<"0", "1", "2", "3", "4", "5", "6", "7", "8", "9">>
RECURSIVE ToDecimal(_)
ToDecimal(n) ==
    IF n < 10 THEN <<Digits[n + 1]>>
    ELSE ToDecimal(n \div 10) \o <<Digits[(n % 10) + 1]>>

\* the index of the first element of s, from position i on, that is in set cs;
\* Len(s) + 1 when there is none
RECURSIVE FirstIn(_, _, _)
FirstIn(s, cs, i) ==
    IF i > Len(s) THEN Len(s) + 1
    ELSE IF s[i] \in cs THEN i
    ELSE FirstIn(s, cs, i + 1)

\* String.prototype.split(',')
RECURSIVE SplitOn(_, _)
SplitOn(s, c) ==
    LET k == FirstIn(s, {c}, 1)
    IN IF k > Len(s) THEN <<s>>
       ELSE <<SubSeq(s, 1, k - 1)>> \o SplitOn(SubSeq(s, k + 1, Len(s)), c)

\* text.split(/\r\n?|\n/)[0]: the text up to its first line terminator
FirstLine(text) == SubSeq(text, 1, FirstIn(text, {"\n", "\r"}, 1) - 1)

\* s has t as a substring starting at position i
MatchesAt(s, t, i) == i + Len(t) - 1 <= Len(s) /\ SubSeq(s, i, i + Len(t) - 1) = t

\* RegExp.prototype.test for the two pattern shapes the plugin builds:
\*   anchored:   /^@name$/               the whole string is "@" and an alternative
\*   unanchored: /@(name1|name2|...)/    "@" and an alternative occur somewhere
RegExpTest(re, s) ==
    IF re.anchored
    THEN \E a \in Range(re.alternatives) : s = At \o a
    ELSE \E i \in DOMAIN s : \E a \in Range(re.alternatives) :
            MatchesAt(s, At \o a, i)

\* const DEPRECATED_REGEXP = new RegExp(/^@deprecated$/)
DEPRECATED_REGEXP == [anchored |-> TRUE, alternatives |-> <<S_deprecated>>]

\* the properties every object literal {} inherits from Object.prototype;
\* reading one of them from {} yields a truthy value that is not an array
ObjectPrototypeKeys ==
    { S_constructor,
      <<"t", "o", "S", "t", "r", "i", "n", "g">>,
      <<"v", "a", "l", "u", "e", "O", "f">>,
      <<"_", "_", "p", "r", "o", "t", "o", "_", "_">> }

\* a key that JavaScript treats as an array index: iterated first, ascending
IsIndexKey(k) ==
    /\ Len(k) > 0
    /\ \A i \in DOMAIN k : k[i] \in Range(Digits)
    /\ (Len(k) > 1 => k[1] # "0")
RECURSIVE IndexValue(_)
IndexValue(k) ==
    IF k = << >> THEN 0
    ELSE 10 * IndexValue(SubSeq(k, 1, Len(k) - 1))
         + ((CHOOSE d \in DOMAIN Digits : Digits[d] = k[Len(k)]) - 1)

\* the keys of set ks in ascending numeric order
RECURSIVE Ascending(_)
Ascending(ks) ==
    IF ks = {} THEN << >>
    ELSE LET m == CHOOSE k \in ks : \A o \in ks : IndexValue(k) <= IndexValue(o)
         IN <<m>> \o Ascending(ks \ {m})

\* An object used as a map is [keys |-> its own keys in insertion order,
\* val |-> the value of each own key].
EmptyObject == [keys |-> << >>, val |-> << >>]
HasOwn(obj, k) == Includes(obj.keys, k)
SetKey(obj, k, v) ==
    [keys |-> IF HasOwn(obj, k) THEN obj.keys ELSE Append(obj.keys, k),
     val |-> [x \in Range(obj.keys) \cup {k} |-> IF x = k THEN v ELSE obj.val[x]]]
\* Object.keys(obj)
ObjectKeys(obj) ==
    LET NotIdx(k) == ~IsIndexKey(k)
    IN Ascending({k \in Range(obj.keys) : IsIndexKey(k)}) \o SelectSeq(obj.keys, NotIdx)

(***************************************************************************)
(* Inputs: the build configuration, the symbol records and the pages.      *)
(***************************************************************************)
Unset == [defined |-> FALSE, value |-> << >>]
Value(v) == [defined |-> TRUE, value |-> v]
\* options.getValue(name) || fallback: an unset option and the empty string
\* are falsy, an array (even an empty one) is truthy
StringOr(opt, fallback) ==
    IF opt.defined /\ opt.value # << >> THEN opt.value ELSE fallback
ArrayOr(opt, fallback) == IF opt.defined THEN opt.value ELSE fallback

\* the configurations a build is run with
ConfigPool ==
    { \* nothing configured
      [tocGroup |-> Unset, tocKindSortOrder |-> Unset, homePath |-> Unset],
      \* 'since' is a grouping tag too (with an empty entry in the list)
      [tocGroup |-> Value(S_since \o <<",">>),
       tocKindSortOrder |-> Value(<<S_Interface, S_Class>>),
       homePath |-> Value(<<"h">>)],
      \* a grouping-tag entry that the kind probe "@!64" matches
      [tocGroup |-> Value(<<"!", "6", "4">>),
       tocKindSortOrder |-> Value(<<S_Class>>),
       homePath |-> Unset] }

NoComment == [present |-> FALSE, tags |-> << >>]
Comment(tags) == [present |-> TRUE, tags |-> tags]
Tag(name, text) == [tagName |-> name, text |-> text]

\* the symbol records a build's reflection collection is drawn from
RefPool ==
    { \* Foo: @group Alpha
      [name |-> "Foo", kind |-> 128, kindString |-> S_Class,
       comment |-> Comment(<<Tag(S_group, S_Alpha)>>)],
      \* Qux: @deprecated, then @group Beta with a second line of text
      [name |-> "Qux", kind |-> 256, kindString |-> S_Interface,
       comment |-> Comment(<<Tag(S_deprecated, S_empty),
                             Tag(S_group, S_Beta \o <<"\n", "x">>)>>)],
      \* Baz: no comment at all
      [name |-> "Baz", kind |-> 64, kindString |-> S_Function,
       comment |-> NoComment],
      \* a function also named Foo: @group Beta, then @deprecated
      [name |-> "Foo", kind |-> 64, kindString |-> S_Function,
       comment |-> Comment(<<Tag(S_group, S_Beta), Tag(S_deprecated, S_empty)>>)],
      \* Corge: @since 7, @group Gamma, @platform web
      [name |-> "Corge", kind |-> 128, kindString |-> S_Class,
       comment |-> Comment(<<Tag(S_since, <<"7">>), Tag(S_group, S_Gamma),
                             Tag(S_platform, S_web)>>)],
      \* Grault: @groups with an empty body
      [name |-> "Grault", kind |-> 256, kindString |-> S_Interface,
       comment |-> Comment(<<Tag(S_groups, S_empty)>>)],
      \* Garply: @kind constructor
      [name |-> "Garply", kind |-> 128, kindString |-> S_Class,
       comment |-> Comment(<<Tag(S_kind, S_constructor)>>)],
      \* Waldo: @group Others
      [name |-> "Waldo", kind |-> 64, kindString |-> S_Function,
       comment |-> Comment(<<Tag(S_group, DEFAULT_UNGROUPED_NAME)>>)] }

\* context.project.reflections: the records of one build, in id order
RefCollections == UNION {[1..n -> RefPool] : n \in 1..MaxRefs}

\* context.project.name
ProjectNames == {<<"m", "y", "-", "l", "i", "b">>}

(***************************************************************************)
(* The state.                                                              *)
(***************************************************************************)
\* private regexp: RegExp  -- declared without an initialiser
UndefinedRegExp == [anchored |-> FALSE, alternatives |-> << >>]
\* context.project before the plugin attaches project[PLUGIN_NAME]
NoProject == [name |-> << >>, reflections |-> << >>, attached |-> FALSE,
              groupedData |-> << >>, deprecatedData |-> {},
              mapedTocData |-> EmptyObject, homePath |-> << >>,
              regexp |-> UndefinedRegExp, sortOrder |-> EmptyObject]
\* no page event has been delivered in this build
NoPage == [status |-> "none", model |-> << >>, trail |-> << >>,
           items |-> << >>, grouped |-> FALSE, children |-> << >>]

Init ==
    /\ regexp = UndefinedRegExp
    /\ sortOrder = EmptyObject
    /\ options \in ConfigPool
    /\ project = NoProject
    /\ page = NoPage
    /\ phase = "initialized"
    /\ error = "none"
    /\ builds = 0

(***************************************************************************)
(* onBegin: Converter.EVENT_BEGIN                                          *)
(***************************************************************************)
\* sortOrder.reduce((acc, item, idx) => { acc[item.toLowerCase()] = idx; ... }, {})
RECURSIVE ReduceSortOrder(_, _, _)
ReduceSortOrder(acc, list, idx) ==
    IF idx >= Len(list) THEN acc
    ELSE ReduceSortOrder(SetKey(acc, toLowerCase(list[idx + 1]), idx), list, idx + 1)

\* the regexp onBegin builds from the option value
GroupRegExp(opts) ==
    LET userTags == SplitOn(StringOr(opts.tocGroup, << >>), ",")
        NonEmpty(item) == Len(item) > 0
        groupTags == SelectSeq(defaultTags \o userTags, NonEmpty)
    IN [anchored |-> FALSE, alternatives |-> groupTags]

\* SortOrderOf filling the table of the build before instead of a new one
SortOrderOf_Accumulate(opts) ==
    ReduceSortOrder(sortOrder, ArrayOr(opts.tocKindSortOrder, << >>), 0)

\* the sort table onBegin builds from the option value
SortOrderOf(opts) == ReduceSortOrder(EmptyObject, ArrayOr(opts.tocKindSortOrder, << >>), 0)

onBegin ==
    /\ phase \in {"initialized", "resolved", "failed"}
    /\ \E opts \in ConfigPool : options' = opts
    /\ regexp' = GroupRegExp(options')
    /\ sortOrder' = SortOrderOf(options')
    /\ project' = NoProject
    /\ page' = NoPage
    /\ phase' = "begun"
    /\ error' = "none"
    /\ builds' = IF builds < MaxBuilds THEN builds + 1 ELSE builds

(***************************************************************************)
(* compareKind                                                             *)
(***************************************************************************)
\* KindIndex giving a kind without an entry the rank after the last entry
KindIndex_Last(order, kind) ==
    LET k == toLowerCase(kind)
    IN IF HasOwn(order, k) THEN [nan |-> FALSE, n |-> order.val[k]]
       ELSE IF k \in ObjectPrototypeKeys THEN [nan |-> TRUE, n |-> 0]
       ELSE [nan |-> FALSE, n |-> Len(order.keys)]

\* sortOrder[kind.toLowerCase()] || 0, as a number: an own entry gives its
\* index, a property inherited from Object.prototype gives a function (which
\* makes the subtraction NaN), anything else gives 0
KindIndex(order, kind) ==
    LET k == toLowerCase(kind)
    IN IF HasOwn(order, k) THEN [nan |-> FALSE, n |-> order.val[k]]
       ELSE IF k \in ObjectPrototypeKeys THEN [nan |-> TRUE, n |-> 0]
       ELSE [nan |-> FALSE, n |-> 0]

compareKind(order, a, b) ==
    LET aIndex == KindIndex(order, a)
        bIndex == KindIndex(order, b)
    IN IF aIndex.nan \/ bIndex.nan THEN [nan |-> TRUE, n |-> 0]
       ELSE [nan |-> FALSE, n |-> aIndex.n - bIndex.n]

(***************************************************************************)
(* onBeginResolve: Converter.EVENT_RESOLVE_BEGIN                           *)
(***************************************************************************)
\* the accumulators of the scan before the first record
EmptyScan == [groupedData |-> << >>, deprecatedData |-> {},
              mapedTocData |-> EmptyObject, error |-> "none"]

\* AddToGroup without groupedData.push(ref.name)
AddToGroup_NoGrouped(acc, ref, tag) ==
    LET groupKey == FirstLine(tag.text)
        m == acc.mapedTocData
    IN IF HasOwn(m, groupKey)
       THEN [acc EXCEPT !.mapedTocData = SetKey(m, groupKey, Append(m.val[groupKey], ref.name))]
       ELSE IF groupKey \in ObjectPrototypeKeys
       THEN [acc EXCEPT !.error = "TypeError"]
       ELSE [acc EXCEPT !.mapedTocData = SetKey(m, groupKey, <<ref.name>>)]

\* the body of `if (this.regexp.test(...))`: lines 83-87
AddToGroup(acc, ref, tag) ==
    LET groupKey == FirstLine(tag.text)
        m == acc.mapedTocData
    IN IF HasOwn(m, groupKey)
       THEN [acc EXCEPT !.groupedData = Append(@, ref.name),
                        !.mapedTocData = SetKey(m, groupKey, Append(m.val[groupKey], ref.name))]
       ELSE IF groupKey \in ObjectPrototypeKeys
       \* mapedTocData[groupKey] is inherited and truthy: no list is created
       \* and .push is not a function
       THEN [acc EXCEPT !.groupedData = Append(@, ref.name), !.error = "TypeError"]
       ELSE [acc EXCEPT !.groupedData = Append(@, ref.name),
                        !.mapedTocData = SetKey(m, groupKey, <<ref.name>>)]

\* for (const tag of comment.tags), from tag j on
RECURSIVE ScanTags(_, _, _, _)
ScanTags(re, ref, j, acc) ==
    IF j > Len(ref.comment.tags) THEN acc
    ELSE LET tag == ref.comment.tags[j]
             probe == At \o tag.tagName
             acc1 == IF RegExpTest(DEPRECATED_REGEXP, probe)
                     THEN [acc EXCEPT !.deprecatedData = @ \cup {ref.name}]
                     ELSE acc
         IN IF RegExpTest(re, probe)
            THEN AddToGroup(acc1, ref, tag)      \* ... break
            ELSE ScanTags(re, ref, j + 1, acc1)

\* for (const key in reflections), from record i on
RECURSIVE ScanReflections(_, _, _, _)
ScanReflections(re, reflections, i, acc) ==
    IF i > Len(reflections) \/ acc.error # "none" THEN acc
    ELSE LET ref == reflections[i]
         IN IF ~ref.comment.present
            THEN ScanReflections(re, reflections, i + 1, acc)
            ELSE ScanReflections(re, reflections, i + 1, ScanTags(re, ref, 1, acc))

\* project.name.replace(/\-/g, '')
StripHyphens(s) == LET NotHyphen(c) == c # "-" IN SelectSeq(s, NotHyphen)

\* `modules/_index_.${name}.html`
DefaultHomePath(name) ==
    <<"m", "o", "d", "u", "l", "e", "s", "/", "_", "i", "n", "d", "e", "x", "_", ".">>
    \o StripHyphens(name) \o <<".", "h", "t", "m", "l">>

onBeginResolve ==
    /\ phase = "begun"
    /\ \E reflections \in RefCollections, name \in ProjectNames :
          LET scan == ScanReflections(regexp, reflections, 1, EmptyScan)
          IN IF scan.error # "none"
             THEN /\ project' = [NoProject EXCEPT !.name = name, !.reflections = reflections]
                  /\ phase' = "failed"
                  /\ error' = scan.error
             ELSE /\ project' = [name |-> name, reflections |-> reflections,
                                 attached |-> TRUE,
                                 groupedData |-> scan.groupedData,
                                 deprecatedData |-> scan.deprecatedData,
                                 mapedTocData |-> scan.mapedTocData,
                                 homePath |-> StringOr(options.homePath, DefaultHomePath(name)),
                                 regexp |-> regexp,
                                 sortOrder |-> sortOrder]
                  /\ phase' = "resolved"
                  /\ error' = "none"
    /\ UNCHANGED <<regexp, sortOrder, options, page, builds>>

(***************************************************************************)
(* onBeginRendererPage: PageEvent.BEGIN                                    *)
(***************************************************************************)
\* page.toc, the root the default tree hangs from
TocRoot == <<"#toc">>

\* the models a page is rendered for: whether page.model is a Reflection and
\* its chain of ancestors, from the project down to the model itself
PageModels ==
    { [isReflection |-> FALSE, path |-> << >>],
      [isReflection |-> TRUE, path |-> <<"project">>],
      [isReflection |-> TRUE, path |-> <<"project", "module">>],
      [isReflection |-> TRUE, path |-> <<"project", "module", "declaration">>] }

\* the check of line 105 letting every model through
IsReflectionModel_Always(model) == TRUE

\* model instanceof Reflection
IsReflectionModel(model) == model.isReflection

\* model instanceof ProjectReflection || model.kindOf(ReflectionKind.SomeModule)
IsContainer(k) == k \in {"project", "module"}

\* the while loop of lines 110-113: the position in the path of the ancestor
\* the walk stops at; the trail is the part of the path below it
RECURSIVE WalkUp(_, _)
WalkUp(path, i) ==
    IF i = 0 THEN 0
    ELSE IF IsContainer(path[i]) THEN i
    ELSE WalkUp(path, i - 1)
Trail(path) == SubSeq(path, WalkUp(path, Len(path)) + 1, Len(path))

\* TocPlugin.buildToc(model, trail, page.toc, tocRestriction): the top-level
\* children of the default tree are nodes created from some of the project's
\* records, in the records' order
DefaultTrees(reflections) == SUBSET (1..Len(reflections))
RECURSIVE InOrder(_, _, _)
InOrder(sel, i, n) ==
    IF i > n THEN << >>
    ELSE (IF i \in sel THEN <<i>> ELSE << >>) \o InOrder(sel, i + 1, n)
\* NavigationItem.create(child, parent, true) for each selected record
buildToc(reflections, sel) ==
    LET order == InOrder(sel, 1, Len(reflections))
    IN [i \in DOMAIN order |->
          [title |-> reflections[order[i]].name, reflection |-> order[i],
           parent |-> TocRoot, deprecated |-> FALSE]]

\* regexp.test(`@!${item.reflection.kind}`)
KindExcluded(re, ref) == RegExpTest(re, At \o <<"!">> \o ToDecimal(ref.kind))

\* lines 127-133: the titles of the top-level children not in groupedData
DefaultGroups(groupedData, items) ==
    LET titles == [i \in DOMAIN items |-> items[i].title]
        Ungrouped(t) == ~Includes(groupedData, t)
    IN SelectSeq(titles, Ungrouped)

\* WithUngrouped pushing the page's ungrouped titles onto the 'Others' list
WithUngrouped_Accumulate(proj, items) ==
    LET m == proj.mapedTocData
        defaultGroups == DefaultGroups(proj.groupedData, items)
        others == IF HasOwn(m, DEFAULT_UNGROUPED_NAME)
                  THEN m.val[DEFAULT_UNGROUPED_NAME] ELSE << >>
    IN IF defaultGroups = << >> THEN m
       ELSE SetKey(m, DEFAULT_UNGROUPED_NAME, others \o defaultGroups)

\* WithUngrouped without the test of line 126: 'Others' is set on every page
WithUngrouped_Always(proj, items) ==
    LET defaultGroups == DefaultGroups(proj.groupedData, items)
    IN IF defaultGroups = << >>
       THEN proj.mapedTocData
       ELSE SetKey(proj.mapedTocData, DEFAULT_UNGROUPED_NAME, defaultGroups)

\* lines 126-134: mapedTocData after the 'Others' list is set, when it is
WithUngrouped(proj, items) ==
    LET m == proj.mapedTocData
        defaultGroups == DefaultGroups(proj.groupedData, items)
    IN IF HasOwn(m, DEFAULT_UNGROUPED_NAME) \/ defaultGroups = << >>
       THEN m
       ELSE SetKey(m, DEFAULT_UNGROUPED_NAME, defaultGroups)

\* FilterItem leaving the parent of a kept item as it was
FilterItem_NoParent(proj, key, groupedValue, item) ==
    IF KindExcluded(proj.regexp, proj.reflections[item.reflection])
    THEN [item |-> item, keep |-> FALSE]
    ELSE LET flagged == IF item.title \in proj.deprecatedData
                        THEN [item EXCEPT !.deprecated = TRUE]
                        ELSE item
         IN [item |-> flagged, keep |-> Includes(groupedValue, item.title)]

\* FilterItem flagging every surviving item as deprecated
FilterItem_FlagAll(proj, key, groupedValue, item) ==
    IF KindExcluded(proj.regexp, proj.reflections[item.reflection])
    THEN [item |-> item, keep |-> FALSE]
    ELSE IF Includes(groupedValue, item.title)
    THEN [item |-> [item EXCEPT !.parent = key, !.deprecated = TRUE], keep |-> TRUE]
    ELSE [item |-> [item EXCEPT !.deprecated = TRUE], keep |-> FALSE]

\* the filter callback of lines 140-150 applied to item i for the root of
\* group key: the item afterwards, and whether it is kept
FilterItem(proj, key, groupedValue, item) ==
    IF KindExcluded(proj.regexp, proj.reflections[item.reflection])
    THEN [item |-> item, keep |-> FALSE]
    ELSE LET flagged == IF item.title \in proj.deprecatedData
                        THEN [item EXCEPT !.deprecated = TRUE]
                        ELSE item
         IN IF Includes(groupedValue, item.title)
            THEN [item |-> [flagged EXCEPT !.parent = key], keep |-> TRUE]
            ELSE [item |-> flagged, keep |-> FALSE]

\* page.toc.children.filter(...) for one group: the items afterwards and the
\* positions of the items kept, from item i on
RECURSIVE FilterChildren(_, _, _, _, _, _)
FilterChildren(proj, key, groupedValue, items, i, kept) ==
    IF i > Len(items) THEN [items |-> items, children |-> kept]
    ELSE LET r == FilterItem(proj, key, groupedValue, items[i])
         IN FilterChildren(proj, key, groupedValue, [items EXCEPT ![i] = r.item],
                           i + 1, IF r.keep THEN Append(kept, i) ELSE kept)

\* new NavigationItem(key, homePath) with groupTitle and children set: the
\* constructor is given no reflection
GroupRoot(key, homePath, children) ==
    [title |-> key, url |-> homePath, groupTitle |-> key, children |-> children,
     reflection |-> [defined |-> FALSE, kindString |-> << >>]]

\* Object.keys(mapedTocData).map(...), from key k on
RECURSIVE MapGroups(_, _, _, _, _, _)
MapGroups(proj, m, keys, k, items, roots) ==
    IF k > Len(keys) THEN [items |-> items, roots |-> roots]
    ELSE LET r == FilterChildren(proj, keys[k], m.val[keys[k]], items, 1, << >>)
         IN MapGroups(proj, m, keys, k + 1, r.items,
                      Append(roots, GroupRoot(keys[k], proj.homePath, r.children)))

\* the comparator of lines 153-157; reading kindString of a missing
\* reflection is a TypeError
CompareRoots(order, a, b) ==
    IF ~a.reflection.defined \/ ~b.reflection.defined
    THEN [error |-> "TypeError", n |-> 0]
    ELSE LET c == compareKind(order, a.reflection.kindString, b.reflection.kindString)
         \* a NaN result of the comparator counts as 0
         IN [error |-> "none", n |-> IF c.nan THEN 0 ELSE c.n]

\* the position x is inserted at in the sorted list: after the last element
\* that does not compare greater than x (the sort is stable)
RECURSIVE InsertPos(_, _, _, _)
InsertPos(order, sorted, x, j) ==
    IF j = 0 THEN 0
    ELSE IF CompareRoots(order, sorted[j], x).n > 0
    THEN InsertPos(order, sorted, x, j - 1)
    ELSE j

\* Array.prototype.sort with the comparator above, from element i on
RECURSIVE SortRoots(_, _, _, _)
SortRoots(order, roots, i, sorted) ==
    IF i > Len(roots) THEN [error |-> "none", roots |-> sorted]
    ELSE IF sorted # << >> /\ \E j \in DOMAIN sorted :
                CompareRoots(order, sorted[j], roots[i]).error # "none"
    THEN [error |-> "TypeError", roots |-> roots]
    ELSE LET pos == InsertPos(order, sorted, roots[i], Len(sorted))
         IN SortRoots(order, roots, i + 1,
                      SubSeq(sorted, 1, pos) \o <<roots[i]>>
                      \o SubSeq(sorted, pos + 1, Len(sorted)))

\* the check of line 124 without the length test
HasGroups_Always(m) == TRUE

\* typeof mapedTocData === 'object' && Object.keys(mapedTocData).length
HasGroups(m) == Len(ObjectKeys(m)) > 0

\* buildGroupTocContent(page): the Group Index's mapedTocData, the default
\* tree's items and page.toc.children afterwards
buildGroupTocContent(proj, items) ==
    LET untouched == [mapedTocData |-> proj.mapedTocData, items |-> items,
                      grouped |-> FALSE, children |-> << >>, error |-> "none"]
    IN IF ~HasGroups(proj.mapedTocData) THEN untouched
       ELSE LET m == WithUngrouped(proj, items)
                mapped == MapGroups(proj, m, ObjectKeys(m), 1, items, << >>)
                sorted == SortRoots(proj.sortOrder, mapped.roots, 1, << >>)
            IN IF sorted.error # "none"
               THEN [mapedTocData |-> m, items |-> mapped.items,
                     grouped |-> FALSE, children |-> << >>, error |-> sorted.error]
               ELSE IF Len(sorted.roots) > 0
               THEN [mapedTocData |-> m, items |-> mapped.items,
                     grouped |-> TRUE, children |-> sorted.roots, error |-> "none"]
               ELSE [mapedTocData |-> m, items |-> mapped.items,
                     grouped |-> FALSE, children |-> << >>, error |-> "none"]

\* page.toc.children of a page whose top level was not replaced is the list
\* of the default tree's items; page.children holds the group roots otherwise
onBeginRendererPage ==
    /\ phase = "resolved"
    /\ \E model \in PageModels :
          IF ~IsReflectionModel(model)
          THEN /\ page' = [NoPage EXCEPT !.status = "skipped", !.model = model.path]
               /\ UNCHANGED <<project, phase, error>>
          ELSE \E sel \in DefaultTrees(project.reflections) :
                  LET items == buildToc(project.reflections, sel)
                      r == buildGroupTocContent(project, items)
                  IN /\ project' = [project EXCEPT !.mapedTocData = r.mapedTocData]
                     /\ page' = [status |-> IF r.error = "none" THEN "built" ELSE "threw",
                                 model |-> model.path, trail |-> Trail(model.path),
                                 items |-> r.items, grouped |-> r.grouped,
                                 children |-> r.children]
                     /\ phase' = IF r.error = "none" THEN "resolved" ELSE "failed"
                     /\ error' = r.error
    /\ UNCHANGED <<regexp, sortOrder, options, builds>>

Next == onBegin \/ onBeginResolve \/ onBeginRendererPage

Spec == Init /\ [][Next]_vars

(***************************************************************************)
(* Vocabulary of the properties.                                           *)
(***************************************************************************)
\* onBeginResolve has run in the current build
Indexed == project.reflections # << >>
\* onBeginRendererPage ran buildGroupTocContent on the current page
Processed == page.status \in {"built", "threw"}
\* a step of onBeginRendererPage
PageStep == phase = "resolved" /\ page'.status # "none"

m_ == project.mapedTocData
NamesOf(list) == Range(list)
GroupedNames == NamesOf(project.groupedData)

\* the positions of the tags of a record that the grouping pattern matches
GroupTagPositions(ref) ==
    IF ~ref.comment.present THEN {}
    ELSE {j \in DOMAIN ref.comment.tags :
            RegExpTest(regexp, At \o ref.comment.tags[j].tagName)}
HasGroupTag(ref) == GroupTagPositions(ref) # {}
\* the first line of the body of the first matching grouping tag
FirstGroupKey(ref) ==
    LET j == CHOOSE x \in GroupTagPositions(ref) :
                \A y \in GroupTagPositions(ref) : x <= y
    IN FirstLine(ref.comment.tags[j].text)
\* the names of the records whose first grouping tag names group k, in scan order
ExpectedList(k) ==
    LET InGroup(ref) == HasGroupTag(ref) /\ FirstGroupKey(ref) = k
        members == SelectSeq(project.reflections, InGroup)
    IN [i \in DOMAIN members |-> members[i].name]
ExpectedKeys ==
    {FirstGroupKey(project.reflections[i]) :
        i \in {x \in DOMAIN project.reflections : HasGroupTag(project.reflections[x])}}

\* the record carries a tag named exactly 'deprecated'
CarriesDeprecation(ref) ==
    /\ ref.comment.present
    /\ \E j \in DOMAIN ref.comment.tags : ref.comment.tags[j].tagName = S_deprecated

\* the 'Others' list was inserted by the Regrouper, not created by the Indexer
LazyOthers ==
    /\ HasOwn(m_, DEFAULT_UNGROUPED_NAME)
    /\ NamesOf(m_.val[DEFAULT_UNGROUPED_NAME]) \cap GroupedNames = {}
\* the keys of the lists the Indexer created
IndexerKeys ==
    IF LazyOthers THEN Range(m_.keys) \ {DEFAULT_UNGROUPED_NAME} ELSE Range(m_.keys)

\* the positions of the default tree's children with a title in list, in order
TitledIn(list) ==
    LET idx == [i \in DOMAIN page.items |-> i]
        In(i) == Includes(list, page.items[i].title)
    IN SelectSeq(idx, In)

\* the kind-sort rank of a group node: that of the kind of its first member
FirstMemberRank(node) ==
    IF node.children = << >> THEN 0
    ELSE KindIndex(project.sortOrder,
                   project.reflections[page.items[node.children[1]].reflection].kindString).n
\* the position of a group key in construction order
KeyPos(k) == CHOOSE i \in DOMAIN ObjectKeys(m_) : ObjectKeys(m_)[i] = k

(***************************************************************************)
(* C1: when the Group Index has at least one group, after a page is        *)
(* processed the page tree's top level is one node per group key (with     *)
(* 'Others' when some child's title is not in groupedNames), and each      *)
(* group node's children are exactly the default tree's children whose     *)
(* titles are in that group's membership list, in default-tree order.      *)
(* The code raises a TypeError in the sort comparator as soon as there are *)
(* two groups, and the top level stays the default list.                   *)
(***************************************************************************)
C1_TopLevelIsGroups ==
    (Processed /\ HasGroups(m_)) =>
        /\ page.grouped
        /\ {page.children[i].title : i \in DOMAIN page.children} = Range(m_.keys)
        /\ Len(page.children) = Len(m_.keys)
        /\ (\E i \in DOMAIN page.items : page.items[i].title \notin GroupedNames)
              => HasOwn(m_, DEFAULT_UNGROUPED_NAME)
        /\ \A i \in DOMAIN page.children :
              page.children[i].children = TitledIn(m_.val[page.children[i].title])

(***************************************************************************)
(* C2: on every processed page of a build with at least one group, every   *)
(* top-level child of the default tree whose title is not in groupedNames  *)
(* is a child of the 'Others' node of the regrouped tree.                  *)
(***************************************************************************)
C2_UngroupedInOthers ==
    (Processed /\ HasGroups(m_)) =>
        \A i \in DOMAIN page.items :
            page.items[i].title \notin GroupedNames =>
                /\ page.grouped
                /\ \E n \in DOMAIN page.children :
                      /\ page.children[n].title = DEFAULT_UNGROUPED_NAME
                      /\ Includes(page.children[n].children, i)

(***************************************************************************)
(* C3: once the Indexer has run, every record with a matching grouping tag *)
(* has its name in exactly one list: each list of groupMembership holds,   *)
(* in scan order, the names of the records whose first matching grouping   *)
(* tag has that key as the first line of its body, and there is no other   *)
(* list (but a lazily inserted 'Others').                                  *)
(* The Indexer raises a TypeError on a key such as 'constructor'.          *)
(***************************************************************************)
C3_FirstGroupingTagWins ==
    Indexed =>
        /\ \A k \in ExpectedKeys : HasOwn(m_, k) /\ m_.val[k] = ExpectedList(k)
        /\ IndexerKeys = ExpectedKeys

\* C3, for the collections on which the Indexer completes: the lists are
\* exactly the expected ones
C3_WhenIndexerCompletes ==
    project.attached =>
        /\ \A k \in ExpectedKeys : HasOwn(m_, k) /\ m_.val[k] = ExpectedList(k)
        /\ IndexerKeys = ExpectedKeys

(***************************************************************************)
(* C4: after indexing, every name appears in at most one list of           *)
(* groupMembership.                                                        *)
(***************************************************************************)
C4_NameInAtMostOneGroup ==
    \A k1 \in Range(m_.keys), k2 \in Range(m_.keys) :
        k1 # k2 => NamesOf(m_.val[k1]) \cap NamesOf(m_.val[k2]) = {}

(***************************************************************************)
(* C5, as claimed: from the end of indexing onward, groupedNames equals    *)
(* the union of all lists in groupMembership.                              *)
(***************************************************************************)
C5_GroupedIsUnionOfAll ==
    project.attached =>
        GroupedNames = UNION {NamesOf(m_.val[k]) : k \in Range(m_.keys)}

(***************************************************************************)
(* C5, amended: from the end of indexing onward, groupedNames equals the   *)
(* union of the lists the Indexer created; the only other list is the      *)
(* 'Others' list the Regrouper inserts, which holds no name of             *)
(* groupedNames.                                                           *)
(***************************************************************************)
C5_GroupedIsUnionOfIndexed ==
    project.attached =>
        /\ GroupedNames = UNION {NamesOf(m_.val[k]) : k \in IndexerKeys}
        /\ \A k \in Range(m_.keys) \ IndexerKeys : k = DEFAULT_UNGROUPED_NAME
        /\ \A k \in Range(m_.keys) \ {DEFAULT_UNGROUPED_NAME} :
              NamesOf(m_.val[k]) \subseteq GroupedNames
C5_Witness ==
    /\ project.attached
    /\ Processed
    /\ LazyOthers
    /\ Len(m_.keys) > 1

(***************************************************************************)
(* C6: after indexing, deprecatedNames is exactly the set of names of the  *)
(* records that carry a deprecation tag, whatever the order of the tags.   *)
(***************************************************************************)
C6_DeprecatedIsExact ==
    project.attached =>
        project.deprecatedData =
            {project.reflections[i].name :
                i \in {x \in DOMAIN project.reflections :
                          CarriesDeprecation(project.reflections[x])}}

(***************************************************************************)
(* C7: after a page is regrouped, every child placed under a group node    *)
(* whose title is in deprecatedNames carries the deprecated flag, no child *)
(* whose title is not in deprecatedNames carries it, and placement does    *)
(* not depend on the flag: a child is placed under a group node exactly    *)
(* when it passes the kind probe and its title is in a membership list,    *)
(* and each group node of the replaced top level holds exactly the         *)
(* children passing the probe whose titles are in its list.                *)
(***************************************************************************)
Placed(item) == item.parent # TocRoot
PassesProbe(item) == ~KindExcluded(project.regexp, project.reflections[item.reflection])
C7_DeprecatedFlag ==
    Processed =>
        /\ \A i \in DOMAIN page.items :
              LET item == page.items[i]
              IN /\ (Placed(item) /\ item.title \in project.deprecatedData)
                        => item.deprecated
                 /\ item.deprecated => item.title \in project.deprecatedData
                 /\ Placed(item) <=>
                        /\ PassesProbe(item)
                        /\ HasGroups(m_)
                        /\ \E k \in Range(m_.keys) : Includes(m_.val[k], item.title)
        /\ page.grouped =>
              \A n \in DOMAIN page.children :
                  LET In(i) == PassesProbe(page.items[i])
                  IN page.children[n].children
                        = SelectSeq(TitledIn(m_.val[page.children[n].title]), In)
C7_Witness ==
    /\ page.status = "built"
    /\ page.grouped
    /\ \E n \in DOMAIN page.children : \E c \in Range(page.children[n].children) :
          /\ page.items[c].deprecated
          /\ page.items[c].parent = page.children[n].title
    /\ \E i \in DOMAIN page.items : ~page.items[i].deprecated

(***************************************************************************)
(* C8, as claimed: for a page whose model is the project root or a module  *)
(* container, the page's tree is left untouched and the Group Index is not *)
(* modified.                                                               *)
(***************************************************************************)
IsContainerPage(p) == p.model # << >> /\ IsContainer(p.model[Len(p.model)])
Untouched(p) ==
    /\ ~p.grouped
    /\ \A i \in DOMAIN p.items : p.items[i].parent = TocRoot /\ ~p.items[i].deprecated
C8_ContainerPagesUntouched ==
    [][(PageStep /\ IsContainerPage(page')) =>
          (Untouched(page') /\ project' = project)]_vars

(***************************************************************************)
(* C8, amended: the Regrouper is skipped exactly when the page's model is  *)
(* not a reflection; for such a page the page's tree is left untouched and *)
(* the Group Index is not modified.  Pages of the project root and of      *)
(* module containers are regrouped like every other reflection page.       *)
(***************************************************************************)
C8_NonReflectionPagesUntouched ==
    [][PageStep =>
          /\ page'.status = "skipped" <=> page'.model = << >>
          /\ page'.status = "skipped" =>
                (Untouched(page') /\ page'.items = << >> /\ project' = project
                 /\ phase' = phase /\ error' = error)]_vars
C8_Witness == page.status = "skipped" /\ HasGroups(m_)

(***************************************************************************)
(* C9: when groupMembership is empty after indexing, processing a page     *)
(* replaces nothing: the top-level list stays the default tree's list, no  *)
(* child's parent reference changes and no 'Others' key is added.          *)
(***************************************************************************)
C9_NoGroupsNoReplacement ==
    [][(PageStep /\ m_.keys = << >>) =>
          /\ ~page'.grouped
          /\ page'.status \in {"built", "skipped"}
          /\ \A i \in DOMAIN page'.items : page'.items[i].parent = TocRoot
          /\ project' = project
          /\ ~HasOwn(project'.mapedTocData, DEFAULT_UNGROUPED_NAME)]_vars
C9_Witness ==
    /\ project.attached
    /\ m_.keys = << >>
    /\ page.status = "built"
    /\ Len(page.items) > 0

(***************************************************************************)
(* C10: the top-level group nodes produced for a page are ordered          *)
(* ascending by the kindSortOrder rank of the kind of each group's first   *)
(* member, and groups of equal rank keep their construction order.         *)
(* With two or more groups the comparator raises a TypeError and no list   *)
(* is produced.                                                            *)
(***************************************************************************)
C10_GroupsSortedByKindRank ==
    (Processed /\ HasGroups(m_)) =>
        /\ page.grouped
        /\ \A i \in DOMAIN page.children, j \in DOMAIN page.children :
              i < j =>
                LET a == page.children[i]
                    b == page.children[j]
                IN /\ FirstMemberRank(a) <= FirstMemberRank(b)
                   /\ FirstMemberRank(a) = FirstMemberRank(b)
                         => KeyPos(a.title) < KeyPos(b.title)

(***************************************************************************)
(* C11, as claimed: in the kind comparison a kind that is not named in the *)
(* configured list ranks last: it never compares before a named kind, and  *)
(* two unnamed kinds compare equal.                                        *)
(***************************************************************************)
\* the kind strings compareKind is applied to
KindNames == {S_Class, S_Interface, S_Function, S_Constructor}
Named(kind) == HasOwn(sortOrder, toLowerCase(kind))
\* how a sort reads the comparator's result (NaN counts as 0)
ComparesBefore(c) == ~c.nan /\ c.n < 0
ComparesEqual(c) == c.nan \/ c.n = 0
C11_UnnamedRanksLast ==
    \A a \in KindNames, b \in KindNames :
        ~Named(a) =>
            IF Named(b) THEN ~ComparesBefore(compareKind(sortOrder, a, b))
            ELSE ComparesEqual(compareKind(sortOrder, a, b))

(***************************************************************************)
(* C11, amended: a kind that is not named in the list is given rank 0, the *)
(* rank of the first named kind: the comparison of two kinds is the        *)
(* difference of their ranks, so an unnamed kind compares equal to the     *)
(* first named kind and to every other unnamed kind, and before every kind *)
(* named at a later position.  When one of the two is an unnamed kind      *)
(* whose lower-cased name is a property inherited from Object.prototype    *)
(* (constructor), the result is NaN.                                       *)
(***************************************************************************)
RankOf(kind) == IF Named(kind) THEN sortOrder.val[toLowerCase(kind)] ELSE 0
InheritedKind(kind) == ~Named(kind) /\ toLowerCase(kind) \in ObjectPrototypeKeys
C11_UnnamedRanksZero ==
    \A a \in KindNames, b \in KindNames :
        LET c == compareKind(sortOrder, a, b)
        IN IF InheritedKind(a) \/ InheritedKind(b) THEN c.nan
           ELSE ~c.nan /\ c.n = RankOf(a) - RankOf(b)
C11_Witness ==
    /\ phase # "initialized"
    /\ \E u \in KindNames, n \in KindNames :
          /\ ~Named(u) /\ ~InheritedKind(u)
          /\ Named(n)
          /\ ComparesBefore(compareKind(sortOrder, u, n))

(***************************************************************************)
(* C12: any two pages processed in the same build observe the same         *)
(* groupMembership contents, 'Others' included: the group keys and lists   *)
(* used to build the group nodes of a page are those of the page before.   *)
(* (project.mapedTocData after a page is the map its group nodes were      *)
(* built from.)                                                            *)
(***************************************************************************)
C12_PagesObserveSameMembership ==
    [][(PageStep /\ Processed /\ Processed') =>
          project'.mapedTocData = project.mapedTocData]_vars

(***************************************************************************)
(* C13: writes to the Group Index after indexing are monotonic: over a     *)
(* page render every key of groupMembership stays, with its list           *)
(* unchanged, the only key ever added is 'Others', it is added at most     *)
(* once (never when it is already there), and groupedNames,                *)
(* deprecatedNames, homeLinkPath and kindSortOrder do not change.          *)
(***************************************************************************)
C13_IndexWritesMonotonic ==
    [][PageStep =>
          /\ \A k \in Range(m_.keys) :
                /\ HasOwn(project'.mapedTocData, k)
                /\ project'.mapedTocData.val[k] = m_.val[k]
          /\ Range(project'.mapedTocData.keys) \ Range(m_.keys)
                \subseteq {DEFAULT_UNGROUPED_NAME}
          /\ SubSeq(project'.mapedTocData.keys, 1, Len(m_.keys)) = m_.keys
          /\ Len(project'.mapedTocData.keys) <= Len(m_.keys) + 1
          /\ HasOwn(m_, DEFAULT_UNGROUPED_NAME) => project'.mapedTocData = m_
          /\ project'.groupedData = project.groupedData
          /\ project'.deprecatedData = project.deprecatedData
          /\ project'.homePath = project.homePath
          /\ project'.sortOrder = project.sortOrder]_vars
C13_Witness ==
    /\ Processed
    /\ LazyOthers
    /\ Len(m_.keys) > 1

(***************************************************************************)
(* C14: re-ordered page processing cannot change the outcome: for two      *)
(* pages of a build, the final Group Index and each page's tree are the    *)
(* same whichever of the two is processed first.                           *)
(***************************************************************************)
\* what a page is left with: its status, its top level and its children
Outcome(r) ==
    [status |-> IF r.error = "none" THEN "built" ELSE "threw",
     grouped |-> r.grouped, children |-> r.children, items |-> r.items]
NotRendered == [status |-> "none", grouped |-> FALSE, children |-> << >>, items |-> << >>]
\* the page with default tree sel, processed against the Group Index of proj
RenderPage(proj, sel) == buildGroupTocContent(proj, buildToc(proj.reflections, sel))
\* the pages with default trees s1 and s2 processed in this order; a page
\* that raises ends the build
RenderInOrder(proj, s1, s2) ==
    LET r1 == RenderPage(proj, s1)
    IN IF r1.error # "none"
       THEN [index |-> r1.mapedTocData, first |-> Outcome(r1), second |-> NotRendered]
       ELSE LET r2 == RenderPage([proj EXCEPT !.mapedTocData = r1.mapedTocData], s2)
            IN [index |-> r2.mapedTocData, first |-> Outcome(r1), second |-> Outcome(r2)]
C14_PageOrderIrrelevant ==
    (phase = "resolved" /\ page.status = "none") =>
        \A s1 \in DefaultTrees(project.reflections),
           s2 \in DefaultTrees(project.reflections) :
            LET x == RenderInOrder(project, s1, s2)
                y == RenderInOrder(project, s2, s1)
            IN /\ x.index = y.index
               /\ x.first = y.second
               /\ x.second = y.first

(***************************************************************************)
(* C15: idempotence of the Regrouper: processing the page that was just    *)
(* processed once more (the same model, hence the same freshly built       *)
(* default tree) against the Group Index as it is now yields the same      *)
(* top-level group ordering, the same membership of every group node and   *)
(* the same Group Index.                                                   *)
(***************************************************************************)
C15_ReprocessingIsIdempotent ==
    (project.attached /\ Processed) =>
        LET sel == {page.items[i].reflection : i \in DOMAIN page.items}
            again == RenderPage(project, sel)
        IN /\ Outcome(again) = [status |-> page.status, grouped |-> page.grouped,
                                children |-> page.children, items |-> page.items]
           /\ again.mapedTocData = m_
C15_Witness ==
    /\ project.attached
    /\ page.status = "built"
    /\ page.grouped
    /\ \E n \in DOMAIN page.children : page.children[n].children # << >>

(***************************************************************************)
(* C16: state is scoped to one build: in a build that runs on the plugin   *)
(* instance after another one, the grouping pattern, the kind sort table   *)
(* and the Group Index are those the current build's configuration and     *)
(* symbol records give; no group, 'Others' list, deprecated name or sort   *)
(* rank of the build before is visible.                                    *)
(***************************************************************************)
\* the kind sort table the configuration asks for: each configured name,
\* lower-cased, with its position
SortTableIsConfigured(order) ==
    LET list == ArrayOr(options.tocKindSortOrder, << >>)
    IN /\ Range(order.keys) = {toLowerCase(list[i]) : i \in DOMAIN list}
       /\ \A i \in DOMAIN list : order.val[toLowerCase(list[i])] = i - 1
C16_StateScopedToBuild ==
    builds >= 2 =>
        /\ regexp = GroupRegExp(options)
        /\ SortTableIsConfigured(sortOrder)
        /\ phase = "begun" => (project = NoProject /\ page = NoPage)
        /\ ~project.attached => m_ = EmptyObject
        /\ project.attached =>
              LET scan == ScanReflections(regexp, project.reflections, 1, EmptyScan)
                  Indexer(k) == k \in IndexerKeys
              IN /\ project.groupedData = scan.groupedData
                 /\ project.deprecatedData = scan.deprecatedData
                 /\ SelectSeq(m_.keys, Indexer) = scan.mapedTocData.keys
                 /\ \A k \in IndexerKeys : m_.val[k] = scan.mapedTocData.val[k]
                 /\ LazyOthers =>
                       /\ Processed
                       /\ m_.val[DEFAULT_UNGROUPED_NAME]
                             = DefaultGroups(project.groupedData, page.items)
                 /\ project.regexp = regexp
                 /\ SortTableIsConfigured(project.sortOrder)
                 /\ project.homePath
                       = StringOr(options.homePath, DefaultHomePath(project.name))
        /\ \A i \in DOMAIN page.items :
              page.items[i].reflection \in DOMAIN project.reflections
C16_Witness ==
    /\ builds >= 2
    /\ project.attached
    /\ page.status = "built"
    /\ page.grouped
    /\ project.deprecatedData # {}

(***************************************************************************)
(* C17: the Indexer and the Regrouper are total: whatever the symbol       *)
(* records, the configuration, the default tree and the number of groups,  *)
(* every invocation returns without raising an error.                      *)
(***************************************************************************)
C17_HandlersAreTotal == error = "none" /\ phase # "failed"

(***************************************************************************)
(* C18: a tag is treated as a grouping tag by the Indexer if and only if   *)
(* its name is equal to one of the configured grouping-tag names (group,   *)
(* kind, platform and the non-empty entries of the user list): the names   *)
(* in groupedNames are exactly the names of the records that carry a tag   *)
(* with such a name.                                                       *)
(***************************************************************************)
ConfiguredTagNames ==
    Range(defaultTags)
    \cup (Range(SplitOn(StringOr(options.tocGroup, << >>), ",")) \ {<< >>})
CarriesConfiguredTag(ref) ==
    /\ ref.comment.present
    /\ \E j \in DOMAIN ref.comment.tags :
          ref.comment.tags[j].tagName \in ConfiguredTagNames
C18_GroupingTagIffNameEqual ==
    project.attached =>
        GroupedNames =
            {project.reflections[i].name :
                i \in {x \in DOMAIN project.reflections :
                          CarriesConfiguredTag(project.reflections[x])}}

(***************************************************************************)
(* C19: after the Regrouper has replaced a page's top-level list, parent   *)
(* back-references agree with containment: every child in a group node's   *)
(* child list has that group node as its parent, and each child of the     *)
(* default tree is in the child list of at most one group node.            *)
(***************************************************************************)
C19_ParentsAgreeWithContainment ==
    page.grouped =>
        /\ \A n \in DOMAIN page.children :
              \A c \in Range(page.children[n].children) :
                  page.items[c].parent = page.children[n].title
        /\ \A i \in DOMAIN page.items :
              Cardinality({n \in DOMAIN page.children :
                              Includes(page.children[n].children, i)}) <= 1
C19_Witness ==
    /\ page.grouped
    /\ \E n \in DOMAIN page.children : Len(page.children[n].children) >= 2

====
